---- MODULE Spec2Model ----
(***************************************************************************)
(* Model of datacontract/export/markdown_converter.py: the Markdown        *)
(* exporter of a data contract.  Text is modelled as a sequence of tokens: *)
(* the punctuation that the f-strings of the source write (a bar, a space, *)
(* a line feed, ...) is one token each, the words that come from the input *)
(* (names, types, values) are one token each, so that two texts are equal  *)
(* exactly when their token sequences are.                                 *)
(***************************************************************************)
EXTENDS Integers, Sequences, FiniteSets, TLC

\* ------------------------------------------------------------------ text

NL == "\n"
BR == "<br>"
NUMSP == "&numsp;"
ARROW == "&#x21b3;"
\* the bullet character U+2022 that starts every attribute
BULLET == "U+2022"
\* the backtick character U+0060 around a flag attribute
TICK == "U+0060"

RECURSIVE Join(_, _)
\* sep.join(parts) for a list of texts
Join(parts, sep) ==
    IF Len(parts) = 0 THEN <<>>
    ELSE IF Len(parts) = 1 THEN parts[1]
    ELSE parts[1] \o sep \o Join(Tail(parts), sep)

\* text.replace(a, b) for one-token a
Replace(text, a, b) == [i \in 1..Len(text) |-> IF text[i] = a THEN b ELSE text[i]]

RECURSIVE Repeat(_, _)
\* token * n
Repeat(tok, n) == IF n <= 0 THEN <<>> ELSE <<tok>> \o Repeat(tok, n - 1)

\* ---------------------------------------------------------------- values

\* A python value of an attribute: a bool, an int, a str (a text), None, or
\* the dump of a nested object or mapping.
BoolV(b) == [kind |-> "bool", b |-> b, n |-> 0, s |-> <<>>]
IntV(n) == [kind |-> "int", b |-> FALSE, n |-> n, s |-> <<>>]
StrV(s) == [kind |-> "str", b |-> FALSE, n |-> 0, s |-> s]
NoneV == [kind |-> "none", b |-> FALSE, n |-> 0, s |-> <<>>]
DictV(s) == [kind |-> "dict", b |-> FALSE, n |-> 0, s |-> s]

\* Truthy with the filter written (if value is not None)
Truthy_NotNone(v) == v.kind # "none"

\* bool(value), as the filter (if value) of the comprehension takes it
Truthy(v) ==
    CASE v.kind = "bool" -> v.b
      [] v.kind = "int" -> v.n # 0
      [] v.kind = "str" -> v.s # <<>>
      [] v.kind = "dict" -> v.s # <<>>
      [] OTHER -> FALSE

\* value is True
IsTrue(v) == v.kind = "bool" /\ v.b

\* str(value), as the f-string formats it
StrOf(v) ==
    CASE v.kind = "bool" -> IF v.b THEN <<"True">> ELSE <<"False">>
      [] v.kind = "int" -> <<ToString(v.n)>>
      [] v.kind = "str" -> v.s
      [] v.kind = "dict" -> <<"{">> \o v.s \o <<"}">>
      [] OTHER -> <<"None">>

\* ---------------------------------------------------------------- objects

\* A pydantic object: its declared fields in declaration order, each with its
\* value and whether the input set it; or None (present = FALSE).
Entry(attr, value, isset) == [attr |-> attr, value |-> value, isset |-> isset]
Obj(entries) == [present |-> TRUE, entries |-> entries]
NoObj == [present |-> FALSE, entries |-> <<>>]

\* obj.<attr>: the value of a declared field, None when not declared
GetAttr(entries, attr) ==
    LET hits == SelectSeq(entries, LAMBDA e : e.attr = attr)
    IN IF hits = <<>> THEN NoneV ELSE hits[1].value

\* model_dump without exclude_unset=True
model_dump_KeepUnset(obj, excluded_fields) ==
    SelectSeq(obj.entries, LAMBDA e : e.attr \notin excluded_fields)

\* obj.model_dump(exclude_unset=True, exclude=excluded_fields)
model_dump(obj, excluded_fields) ==
    SelectSeq(obj.entries, LAMBDA e : e.isset /\ e.attr \notin excluded_fields)

\* description_to_markdown without the placeholder of an absent description
description_to_markdown_NoPlaceholder(description) ==
    Replace(IF Truthy(description) THEN StrOf(description) ELSE <<>>, NL, BR)

\* (description or "No description.").replace("\n", "<br>")
description_to_markdown(description) ==
    Replace(IF Truthy(description) THEN StrOf(description) ELSE <<"No description.">>,
            NL, BR)

\* one element of the list attributes
Bullet(e) ==
    IF IsTrue(e.value)
    THEN <<BULLET, " ", TICK, e.attr, TICK>>
    ELSE <<BULLET, " ", "**", e.attr, ":**", " ">> \o StrOf(e.value)

obj_attributes_to_markdown(obj, excluded_fields) ==
    IF ~obj.present THEN <<>>
    ELSE LET dumped == model_dump(obj, excluded_fields)
             description == GetAttr(dumped, "description")
             obj_model == SelectSeq(dumped, LAMBDA e : e.attr # "description")
             kept == SelectSeq(obj_model, LAMBDA e : Truthy(e.value))
             attributes == [i \in 1..Len(kept) |-> Bullet(kept[i])]
         IN <<"*">> \o description_to_markdown(description) \o <<"*", BR>>
              \o Join(attributes, <<BR>>)

\* ----------------------------------------------------------------- fields

\* A Field: its declared scalar fields (type, description, ...) as entries,
\* and its four structural slots: fields is a mapping in insertion order (a
\* sequence of <<name, Field>>), items, keys and values are None (<<>>) or
\* one Field (<<f>>).
Field(attrs, fields, items, keys, values) ==
    [attrs |-> attrs, fields |-> fields, items |-> items, keys |-> keys,
     values |-> values]

\* The Field as the pydantic object that model_dump reads: the structural
\* slots are declared fields too, set when the input gave them.
FieldObj(field) ==
    Obj(<<Entry("fields", DictV(IF field.fields = <<>> THEN <<>> ELSE <<"fields">>),
                field.fields # <<>>),
          Entry("items", DictV(<<"items">>), field.items # <<>>),
          Entry("keys", DictV(<<"keys">>), field.keys # <<>>),
          Entry("values", DictV(<<"values">>), field.values # <<>>)>>
        \o field.attrs)

StructuralSlots == {"type", "fields", "items", "keys", "values"}

RECURSIVE field_to_markdown(_, _, _)
RECURSIVE fields_to_markdown(_, _)

\* FieldRow with the glyph written at every level (level >= 0)
FieldRow_GlyphAtTop(field_name, field, level) ==
    LET tabs == Repeat(NUMSP, level)
        arrow == IF level >= 0 THEN <<ARROW>> ELSE <<>>
        column_name == tabs \o arrow \o <<" ", field_name>>
        attributes == obj_attributes_to_markdown(FieldObj(field), StructuralSlots)
    IN <<"|", " ">> \o column_name \o <<" ", "|", " ">>
         \o StrOf(GetAttr(field.attrs, "type")) \o <<" ", "|", " ">>
         \o attributes \o <<" ", "|">>

\* the first element of rows: the field's own table row
FieldRow(field_name, field, level) ==
    LET tabs == Repeat(NUMSP, level)
        arrow == IF level > 0 THEN <<ARROW>> ELSE <<>>
        column_name == tabs \o arrow \o <<" ", field_name>>
        attributes == obj_attributes_to_markdown(FieldObj(field), StructuralSlots)
    IN <<"|", " ">> \o column_name \o <<" ", "|", " ">>
         \o StrOf(GetAttr(field.attrs, "type")) \o <<" ", "|", " ">>
         \o attributes \o <<" ", "|">>

\* NestedRows with the map keys handled before the array items
NestedRows_KeysBeforeItems(field, level) ==
    (IF field.fields # <<>> THEN <<fields_to_markdown(field.fields, level + 1)>> ELSE <<>>)
    \o (IF field.keys # <<>>
        THEN <<field_to_markdown("keys", field.keys[1], level + 1)>> ELSE <<>>)
    \o (IF field.items # <<>>
        THEN <<field_to_markdown("items", field.items[1], level + 1)>> ELSE <<>>)
    \o (IF field.values # <<>>
        THEN <<field_to_markdown("values", field.values[1], level + 1)>> ELSE <<>>)

\* the elements appended to rows for the nested fields, array and map
NestedRows(field, level) ==
    (IF field.fields # <<>> THEN <<fields_to_markdown(field.fields, level + 1)>> ELSE <<>>)
    \o (IF field.items # <<>>
        THEN <<field_to_markdown("items", field.items[1], level + 1)>> ELSE <<>>)
    \o (IF field.keys # <<>>
        THEN <<field_to_markdown("keys", field.keys[1], level + 1)>> ELSE <<>>)
    \o (IF field.values # <<>>
        THEN <<field_to_markdown("values", field.values[1], level + 1)>> ELSE <<>>)

field_to_markdown(field_name, field, level) ==
    Join(<<FieldRow(field_name, field, level)>> \o NestedRows(field, level), <<NL>>)

\* fields_to_markdown walking the mapping from its last entry to its first
fields_to_markdown_Reversed(fields, level) ==
    Join([i \in 1..Len(fields) |->
            field_to_markdown(fields[Len(fields) + 1 - i][1], fields[Len(fields) + 1 - i][2],
                              level)],
         <<NL>>)

fields_to_markdown(fields, level) ==
    Join([i \in 1..Len(fields) |-> field_to_markdown(fields[i][1], fields[i][2], level)],
         <<NL>>)

\* ------------------------------------------------------ sections, document

\* x or '' for an optional text attribute
OrEmpty(v) == IF Truthy(v) THEN StrOf(v) ELSE <<>>

ServerRow(server_name, server) ==
    <<"|", " ", server_name, " ", "|", " ">> \o OrEmpty(GetAttr(server.entries, "type"))
      \o <<" ", "|", " ">> \o obj_attributes_to_markdown(server, {"type"}) \o <<" ", "|">>

\* servers: a mapping in insertion order, <<>> when empty or None
servers_to_markdown(servers) ==
    IF servers = <<>> THEN <<>>
    ELSE Join(<< <<"| Name | Type | Attributes |">>, <<"| ---- | ---- | ---------- |">> >>
              \o [i \in 1..Len(servers) |-> ServerRow(servers[i][1], servers[i][2])],
              <<NL>>)

\* A Model: its description (a value, None when absent) and its fields
Model(description, fields) == [description |-> description, fields |-> fields]

model_to_markdown(model_name, model) ==
    Join(<< <<"###", " ", model_name>>,
            <<"*">> \o description_to_markdown(model.description) \o <<"*">>,
            <<>>,
            <<"| Field | Type | Attributes |">>,
            <<"| ----- | ---- | ---------- |">>,
            fields_to_markdown(model.fields, 0) >>,
         <<NL>>)

models_to_markdown(models) ==
    Join([i \in 1..Len(models) |-> model_to_markdown(models[i][1], models[i][2])], <<NL>>)

DefinitionRow(definition_name, definition) ==
    <<"|", " ", definition_name, " ", "|", " ">>
      \o OrEmpty(GetAttr(definition.entries, "type")) \o <<" ", "|", " ">>
      \o OrEmpty(GetAttr(definition.entries, "domain")) \o <<" ", "|", " ">>
      \o obj_attributes_to_markdown(definition, {"name", "type", "domain"}) \o <<" ", "|">>

definitions_to_markdown(definitions) ==
    IF definitions = <<>> THEN <<>>
    ELSE Join(<< <<"| Name | Type | Domain | Attributes |">>,
                 <<"| ---- | ---- | ------ | ---------- |">> >>
              \o [i \in 1..Len(definitions) |->
                    DefinitionRow(definitions[i][1], definitions[i][2])],
              <<NL>>)

\* the seven sub-objects of ServiceLevel, in the order of the if statements
ServiceLevelParts ==
    << <<"availability", "Availability">>, <<"retention", "Retention">>,
       <<"latency", "Latency">>, <<"freshness", "Freshness">>,
       <<"frequency", "Frequency">>, <<"support", "Support">>,
       <<"backup", "Backup">> >>

RECURSIVE ServiceLevelResult(_, _)
\* the list result after the if statements from the i-th on
ServiceLevelResult(service_level, i) ==
    IF i > Len(ServiceLevelParts) THEN <<>>
    ELSE (IF service_level.parts[ServiceLevelParts[i][1]].present
          THEN << <<"###", " ", ServiceLevelParts[i][2]>>,
                  obj_attributes_to_markdown(
                      service_level.parts[ServiceLevelParts[i][1]], {}),
                  <<>> >>
          ELSE <<>>)
         \o ServiceLevelResult(service_level, i + 1)

\* service_level: [present, parts], parts maps each sub-object's name to an
\* object or None
service_level_to_markdown(service_level) ==
    IF ~service_level.present THEN <<>>
    ELSE Join(<< <<>> >> \o ServiceLevelResult(service_level, 1), <<NL>>)

\* the list markdown_parts
MarkdownParts(data_contract) ==
    << <<"#", " ", data_contract.id>>,
       <<"## Info">>,
       obj_attributes_to_markdown(data_contract.info, {}),
       <<>>,
       <<"## Servers">>,
       servers_to_markdown(data_contract.servers),
       <<>>,
       <<"## Terms">>,
       obj_attributes_to_markdown(data_contract.terms, {}),
       <<>>,
       <<"## Models">>,
       models_to_markdown(data_contract.models),
       <<>>,
       <<"## Definitions">>,
       definitions_to_markdown(data_contract.definitions),
       <<>>,
       <<"## Service levels">>,
       service_level_to_markdown(data_contract.servicelevels) >>

\* to_markdown leaving out the Servers heading over an empty body
to_markdown_SkipEmptyServers(data_contract) ==
    Join(SelectSeq(MarkdownParts(data_contract),
                   LAMBDA part : part # <<"## Servers">> \/ data_contract.servers # <<>>),
         <<NL>>)

to_markdown(data_contract) == Join(MarkdownParts(data_contract), <<NL>>)

\* ------------------------------------------------------------------ inputs

MaxNodes == 4
MaxLevel == 1
MaxEntries == 2

FieldNames == {"a", "b"}
EntryNames == {"n1", "n2", "n3"}

\* The scalar attributes an object may declare, in declaration order: per
\* attribute the entries it can hold (unset with its default, or set).
AttrChoices ==
    << {Entry("description", NoneV, FALSE), Entry("description", StrV(<<>>), TRUE),
        Entry("description", StrV(<<"d">>), TRUE),
        Entry("description", StrV(<<"x", NL, "y">>), TRUE)},
       {Entry("title", NoneV, FALSE), Entry("title", StrV(<<>>), TRUE),
        Entry("title", StrV(<<"t">>), TRUE), Entry("title", StrV(<<"p", NL, "q">>), TRUE)},
       {Entry("required", BoolV(FALSE), FALSE), Entry("required", BoolV(FALSE), TRUE),
        Entry("required", BoolV(TRUE), TRUE)},
       {Entry("minLength", NoneV, FALSE), Entry("minLength", IntV(0), TRUE),
        Entry("minLength", IntV(1), TRUE)},
       {Entry("format", StrV(<<"dflt">>), FALSE), Entry("format", StrV(<<"f">>), TRUE)} >>

\* every choice of one entry per declared attribute
AttrSeqs == {a \in [1..Len(AttrChoices) -> UNION {AttrChoices[i] : i \in 1..Len(AttrChoices)}] :
               \A i \in 1..Len(AttrChoices) : a[i] \in AttrChoices[i]}

Objs == {Obj(a) : a \in AttrSeqs} \cup {NoObj}
ExcludedSets == {{}, {"title", "required"}}

\* the type tag a schema gives a field of this shape
TypeFor(fields, items, keys, values) ==
    IF fields # <<>> THEN "record"
    ELSE IF items # <<>> THEN "array"
    ELSE IF keys # <<>> \/ values # <<>> THEN "map"
    ELSE "string"

PlainField(fields, items, keys, values) ==
    Field(<<Entry("type", StrV(<<TypeFor(fields, items, keys, values)>>), TRUE)>>,
          fields, items, keys, values)

\* None (k = 0) or one Field of k nodes; table[k] holds the Fields of k nodes
OptOfSize(table, k) == IF k = 0 THEN {<<>>} ELSE {<<t>> : t \in table[k]}

RECURSIVE ForestsOfSize(_, _, _)
\* the mappings name -> Field with k nodes in all, keys distinct and in names
ForestsOfSize(table, k, names) ==
    IF k = 0 THEN {<<>>}
    ELSE UNION {UNION {{<< <<n, t>> >> \o r : t \in table[j],
                                            r \in ForestsOfSize(table, k - j, names \ {n})}
                       : j \in 1..k}
                : n \in names}

\* the Fields of exactly n nodes (the field and all its descendants)
TreesOfSize(table, n) ==
    UNION {{PlainField(fs, it, ke, va) :
                fs \in ForestsOfSize(table, q[1], FieldNames), it \in OptOfSize(table, q[2]),
                ke \in OptOfSize(table, q[3]), va \in OptOfSize(table, q[4])}
           : q \in {q \in [1..4 -> 0..(n - 1)] : q[1] + q[2] + q[3] + q[4] = n - 1}}

RECURSIVE TreeTable(_, _)
\* table extended up to the Fields of n nodes
TreeTable(table, n) ==
    IF Len(table) >= n THEN table
    ELSE TreeTable(Append(table, TreesOfSize(table, Len(table) + 1)), n)

TreesBySize == TreeTable(<<>>, MaxNodes)

Trees == UNION {TreesBySize[n] : n \in 1..MaxNodes}

\* a Field with the scalar attributes a set after its type
WithAttrs(field, a) == [field EXCEPT !.attrs = @ \o a]

\* a leaf in every combination of scalar attributes, with or without a type
RichLeaves ==
    {Field(<<Entry("type", StrV(<<"string">>), TRUE)>> \o a, <<>>, <<>>, <<>>, <<>>) :
        a \in AttrSeqs}
    \cup {Field(<<Entry("type", NoneV, FALSE)>>, <<>>, <<>>, <<>>, <<>>)}

\* the attributes that decorate the root of a nested field
Decoration ==
    <<Entry("description", StrV(<<"x", NL, "y">>), TRUE),
      Entry("title", StrV(<<"p", NL, "q">>), TRUE),
      Entry("required", BoolV(TRUE), TRUE), Entry("minLength", IntV(0), TRUE)>>

\* a field with any subset of its four slots populated at once
WideFields ==
    {PlainField(fs, it, ke, va) :
        fs \in UNION {ForestsOfSize(TreesBySize, k, FieldNames) : k \in 0..2},
        it \in OptOfSize(TreesBySize, 0) \cup OptOfSize(TreesBySize, 1),
        ke \in OptOfSize(TreesBySize, 0) \cup OptOfSize(TreesBySize, 1),
        va \in OptOfSize(TreesBySize, 0) \cup OptOfSize(TreesBySize, 1)}

Fields ==
    Trees \cup WideFields \cup RichLeaves
    \cup {WithAttrs(t, Decoration) : t \in UNION {TreesBySize[n] : n \in 2..(MaxNodes - 1)}}

\* the mappings of at most MaxEntries entries, keys distinct and in EntryNames
RECURSIVE MappingsOf(_, _, _)
MappingsOf(objs, names, k) ==
    IF k = 0 THEN {<<>>}
    ELSE {<<>>} \cup UNION {{<< <<n, o>> >> \o r : o \in objs,
                                r \in MappingsOf(objs, names \ {n}, k - 1)}
                           : n \in names}

ServerObjs ==
    {Obj(<<Entry("type", StrV(<<"postgres">>), TRUE), Entry("description", NoneV, FALSE),
           Entry("host", StrV(<<"h">>), TRUE), Entry("port", IntV(5432), TRUE)>>),
     Obj(<<Entry("type", NoneV, FALSE), Entry("description", StrV(<<"d">>), TRUE),
           Entry("host", NoneV, FALSE), Entry("port", IntV(0), TRUE)>>),
     Obj(<<Entry("type", StrV(<<>>), TRUE), Entry("description", NoneV, FALSE),
           Entry("host", StrV(<<"p", NL, "q">>), TRUE), Entry("port", NoneV, FALSE)>>),
     Obj(<<Entry("type", StrV(<<"kafka">>), TRUE), Entry("description", NoneV, FALSE),
           Entry("host", NoneV, FALSE), Entry("port", NoneV, FALSE)>>)}

DefinitionObjs ==
    {Obj(<<Entry("name", StrV(<<"n">>), TRUE), Entry("type", StrV(<<"string">>), TRUE),
           Entry("domain", StrV(<<"global">>), TRUE), Entry("description", NoneV, FALSE),
           Entry("title", StrV(<<"t">>), TRUE), Entry("required", BoolV(FALSE), FALSE)>>),
     Obj(<<Entry("name", NoneV, FALSE), Entry("type", NoneV, FALSE),
           Entry("domain", NoneV, FALSE), Entry("description", StrV(<<"x", NL, "y">>), TRUE),
           Entry("title", NoneV, FALSE), Entry("required", BoolV(TRUE), TRUE)>>),
     Obj(<<Entry("name", StrV(<<"n">>), TRUE), Entry("type", StrV(<<"int">>), TRUE),
           Entry("domain", StrV(<<>>), TRUE), Entry("description", NoneV, FALSE),
           Entry("title", NoneV, FALSE), Entry("required", BoolV(FALSE), TRUE)>>),
     Obj(<<Entry("name", NoneV, FALSE), Entry("type", NoneV, FALSE),
           Entry("domain", StrV(<<"dom">>), TRUE), Entry("description", NoneV, FALSE),
           Entry("title", StrV(<<"p", NL, "q">>), TRUE), Entry("required", BoolV(FALSE), FALSE)>>)}

ServerMaps == MappingsOf(ServerObjs, EntryNames, MaxEntries)
DefinitionMaps == MappingsOf(DefinitionObjs, EntryNames, MaxEntries)

\* ServiceLevel: None, or its seven sub-objects, each an object or None
PartNames == {ServiceLevelParts[i][1] : i \in 1..Len(ServiceLevelParts)}
PartObj ==
    Obj(<<Entry("description", StrV(<<"d">>), TRUE), Entry("percentage", StrV(<<"99%">>), TRUE)>>)
NoServiceLevel == [present |-> FALSE, parts |-> [n \in PartNames |-> NoObj]]
ServiceLevels ==
    {[present |-> TRUE, parts |-> ps] : ps \in [PartNames -> {NoObj, PartObj}]}
    \cup {NoServiceLevel}

DataContract(id, info, servers, terms, models, definitions, servicelevels) ==
    [id |-> id, info |-> info, servers |-> servers, terms |-> terms, models |-> models,
     definitions |-> definitions, servicelevels |-> servicelevels]

\* the contract "orders": one model Order, one field items, an array of string
OrdersModels ==
    << <<"Order",
         Model(NoneV,
               << <<"items",
                    Field(<<Entry("type", StrV(<<"array">>), TRUE)>>, <<>>,
                          <<Field(<<Entry("type", StrV(<<"string">>), TRUE)>>,
                                  <<>>, <<>>, <<>>, <<>>)>>,
                          <<>>, <<>>)>> >>)>> >>

ModelMaps ==
    {<<>>, OrdersModels}
    \cup {<< <<"M", Model(NoneV, fs)>> >> :
            fs \in UNION {ForestsOfSize(TreesBySize, k, FieldNames) : k \in 0..3}}
    \cup {<< <<"M2", Model(StrV(<<"x", NL, "y">>), fs)>>, <<"M1", Model(StrV(<<"d">>), <<>>)>> >> :
            fs \in ForestsOfSize(TreesBySize, 2, FieldNames)}

InfoObjs ==
    {NoObj,
     Obj(<<Entry("title", StrV(<<"t">>), TRUE), Entry("version", StrV(<<"1">>), TRUE),
           Entry("description", NoneV, FALSE)>>)}
TermsObjs ==
    {NoObj,
     Obj(<<Entry("usage", StrV(<<"u", NL, "v">>), TRUE),
           Entry("description", StrV(<<"d">>), TRUE)>>)}

\* the mappings of two different objects under the keys k1, k2, in that order
TwoEntries(objs, k1, k2) ==
    {<< <<k1, o1>>, <<k2, o2>> >> : o1 \in objs, o2 \in objs} \ {<< <<k1, o>>, <<k2, o>> >> : o \in objs}

LatencyAndBackup ==
    [present |-> TRUE,
     parts |-> [n \in PartNames |-> IF n \in {"latency", "backup"} THEN PartObj ELSE NoObj]]

DataContracts ==
    {DataContract("orders", NoObj, <<>>, NoObj, OrdersModels, <<>>, sl) : sl \in ServiceLevels}
    \cup {DataContract("orders", NoObj, <<>>, NoObj, m, <<>>, NoServiceLevel) : m \in ModelMaps}
    \cup {DataContract("c1", i, s, t, m, d, sl) :
            i \in InfoObjs, s \in {<<>>} \cup TwoEntries(ServerObjs, "n2", "n1"),
            t \in TermsObjs, m \in {<<>>, OrdersModels},
            d \in {<<>>} \cup TwoEntries(DefinitionObjs, "n3", "n1"),
            sl \in {NoServiceLevel, LatencyAndBackup}}

\* ------------------------------------------------------------ state machine

\* op: the function under call; pc: "start" before the call, "done" after;
\* the arguments of the call; result: the text returned.
VARIABLES op, pc, obj, excluded_fields, field_name, field, level, servers,
          definitions, data_contract, result

vars == <<op, pc, obj, excluded_fields, field_name, field, level, servers,
          definitions, data_contract, result>>

args == <<op, obj, excluded_fields, field_name, field, level, servers, definitions,
          data_contract>>

NoField == Field(<<>>, <<>>, <<>>, <<>>, <<>>)
NoContract == DataContract("", NoObj, <<>>, NoObj, <<>>, <<>>, NoServiceLevel)

Init ==
    /\ pc = "start"
    /\ result = <<>>
    /\ \/ /\ op = "obj_attributes_to_markdown"
          /\ obj \in Objs /\ excluded_fields \in ExcludedSets
          /\ field_name = "" /\ field = NoField /\ level = 0
          /\ servers = <<>> /\ definitions = <<>> /\ data_contract = NoContract
       \/ /\ op = "field_to_markdown"
          /\ field_name \in {"f"} /\ field \in Fields /\ level \in 0..MaxLevel
          /\ obj = NoObj /\ excluded_fields = {}
          /\ servers = <<>> /\ definitions = <<>> /\ data_contract = NoContract
       \/ /\ op = "servers_to_markdown"
          /\ servers \in ServerMaps
          /\ obj = NoObj /\ excluded_fields = {}
          /\ field_name = "" /\ field = NoField /\ level = 0
          /\ definitions = <<>> /\ data_contract = NoContract
       \/ /\ op = "definitions_to_markdown"
          /\ definitions \in DefinitionMaps
          /\ obj = NoObj /\ excluded_fields = {}
          /\ field_name = "" /\ field = NoField /\ level = 0
          /\ servers = <<>> /\ data_contract = NoContract
       \/ /\ op = "to_markdown"
          /\ data_contract \in DataContracts
          /\ obj = NoObj /\ excluded_fields = {}
          /\ field_name = "" /\ field = NoField /\ level = 0
          /\ servers = <<>> /\ definitions = <<>>

ObjAttributesToMarkdown ==
    /\ pc = "start" /\ op = "obj_attributes_to_markdown"
    /\ result' = obj_attributes_to_markdown(obj, excluded_fields)
    /\ pc' = "done"
    /\ UNCHANGED args

FieldToMarkdown ==
    /\ pc = "start" /\ op = "field_to_markdown"
    /\ result' = field_to_markdown(field_name, field, level)
    /\ pc' = "done"
    /\ UNCHANGED args

ServersToMarkdown ==
    /\ pc = "start" /\ op = "servers_to_markdown"
    /\ result' = servers_to_markdown(servers)
    /\ pc' = "done"
    /\ UNCHANGED args

DefinitionsToMarkdown ==
    /\ pc = "start" /\ op = "definitions_to_markdown"
    /\ result' = definitions_to_markdown(definitions)
    /\ pc' = "done"
    /\ UNCHANGED args

ToMarkdown ==
    /\ pc = "start" /\ op = "to_markdown"
    /\ result' = to_markdown(data_contract)
    /\ pc' = "done"
    /\ UNCHANGED args

Next ==
    \/ ObjAttributesToMarkdown
    \/ FieldToMarkdown
    \/ ServersToMarkdown
    \/ DefinitionsToMarkdown
    \/ ToMarkdown

Spec == Init /\ [][Next]_vars

\* ------------------------------------------------------ reading the output

RECURSIVE Split(_, _)
\* text.split(sep) for a one-token sep
Split(text, sep) ==
    IF \A i \in 1..Len(text) : text[i] # sep THEN <<text>>
    ELSE LET i == CHOOSE k \in 1..Len(text) : text[k] = sep /\ \A j \in 1..(k - 1) : text[j] # sep
         IN <<SubSeq(text, 1, i - 1)>> \o Split(SubSeq(text, i + 1, Len(text)), sep)

\* the output lines of a text
Lines(text) == Split(text, NL)

Count(text, tok) == Cardinality({i \in 1..Len(text) : text[i] = tok})

\* a table row: a line that opens with a bar (a header or separator line is
\* one token of its own, the tail of a value broken by a line feed opens with
\* the value's text)
IsRow(line) == Len(line) > 0 /\ line[1] = "|"
RowsOf(text) == SelectSeq(Lines(text), IsRow)

\* the first cell of a row, between its first and its second bar
FirstCell(line) ==
    LET k == CHOOSE k \in 2..Len(line) : line[k] = "|" /\ \A j \in 2..(k - 1) : line[j] # "|"
    IN SubSeq(line, 2, k - 1)

\* what a row's first cell shows: the name that ends it and the number of
\* indentation markers before it
Label(name, depth) == [name |-> name, depth |-> depth]
RowLabel(line) ==
    LET cell == FirstCell(line)
    IN Label(cell[Len(cell) - 1], Count(cell, NUMSP))
LabelsOf(lines) ==
    LET rows == SelectSeq(lines, IsRow) IN [i \in 1..Len(rows) |-> RowLabel(rows[i])]
RowLabels(text) == LabelsOf(Lines(text))

\* the bullets of an attribute text: what follows each bullet character, up
\* to the line break that joins it to the next bullet
Bullets(text) ==
    LET parts == Split(text, BULLET)
    IN [i \in 1..(Len(parts) - 1) |->
          IF i + 1 < Len(parts) THEN SubSeq(parts[i + 1], 1, Len(parts[i + 1]) - 1)
          ELSE parts[i + 1]]

RECURSIVE Preorder(_, _, _)
RECURSIVE PreorderAll(_, _)
\* the nodes of a Field tree in pre-order, slots in the order fields, items,
\* keys, values, each with its nesting depth
Preorder(name, f, depth) ==
    <<Label(name, depth)>>
    \o PreorderAll(f.fields, depth + 1)
    \o (IF f.items # <<>> THEN Preorder("items", f.items[1], depth + 1) ELSE <<>>)
    \o (IF f.keys # <<>> THEN Preorder("keys", f.keys[1], depth + 1) ELSE <<>>)
    \o (IF f.values # <<>> THEN Preorder("values", f.values[1], depth + 1) ELSE <<>>)
PreorderAll(fs, depth) ==
    IF fs = <<>> THEN <<>>
    ELSE Preorder(fs[1][1], fs[1][2], depth) \o PreorderAll(Tail(fs), depth)

NodeCount(f) == Len(Preorder("", f, 0))
IsLeaf(f) == f.fields = <<>> /\ f.items = <<>> /\ f.keys = <<>> /\ f.values = <<>>

Names(labels) == [i \in 1..Len(labels) |-> labels[i].name]
Keys(mapping) == [i \in 1..Len(mapping) |-> mapping[i][1]]

\* the lines of a document between the heading lines h1 and h2
Section(text, h1, h2) ==
    LET ls == Lines(text)
        i == CHOOSE k \in 1..Len(ls) : ls[k] = <<h1>>
        j == CHOOSE k \in 1..Len(ls) : ls[k] = <<h2>>
    IN SubSeq(ls, i + 1, j - 1)

Contains(lines, line) == \E i \in 1..Len(lines) : lines[i] = line

Done(fn) == pc = "done" /\ op = fn

\* ------------------------------------------------------------------ claims

OrdersContract ==
    DataContract("orders", NoObj, <<>>, NoObj, OrdersModels, <<>>, NoServiceLevel)

ModelsSection == Section(result, "## Models", "## Definitions")

\* C1, as the specification states it: the contract "orders" renders a Models
\* section with the heading of Order, the header row, the row
\* "| items | array |  |" and the child row "|(indent)(glyph) items | string |  |",
\* the third column of both rows empty.
C1_AsStated ==
    (Done("to_markdown") /\ data_contract = OrdersContract) =>
        /\ Contains(ModelsSection, <<"###", " ", "Order">>)
        /\ Contains(ModelsSection, <<"| Field | Type | Attributes |">>)
        /\ Contains(ModelsSection,
                    <<"|", " ", "items", " ", "|", " ", "array", " ", "|", " ", " ", "|">>)
        /\ Contains(ModelsSection,
                    <<"|", NUMSP, ARROW, " ", "items", " ", "|", " ", "string", " ", "|",
                      " ", " ", "|">>)

\* C1, amended: the contract "orders" renders a Models section with the
\* heading of Order, the header row, the row
\* "|  items | array | *No description.*<br> |" and the child row
\* "| (indent)(glyph) items | string | *No description.*<br> |": the third column
\* holds the description placeholder and a line break, and a space follows the
\* opening bar before the label.
C1_OrdersExample ==
    (Done("to_markdown") /\ data_contract = OrdersContract) =>
        /\ Contains(ModelsSection, <<"###", " ", "Order">>)
        /\ Contains(ModelsSection, <<"| Field | Type | Attributes |">>)
        /\ Contains(ModelsSection,
                    <<"|", " ", " ", "items", " ", "|", " ", "array", " ", "|", " ",
                      "*", "No description.", "*", BR, " ", "|">>)
        /\ Contains(ModelsSection,
                    <<"|", " ", NUMSP, ARROW, " ", "items", " ", "|", " ", "string", " ", "|",
                      " ", "*", "No description.", "*", BR, " ", "|">>)
        /\ Len(SelectSeq(ModelsSection, IsRow)) = 2

C1_Witness == Done("to_markdown") /\ data_contract = OrdersContract

\* C2: a field with any subset of fields, items, keys, values populated renders
\* its own row first, then the subtrees of the populated slots in the order
\* fields, items, keys, values, each one level deeper, the single children
\* labelled items, keys, values.
C2_SlotsInFixedOrder ==
    Done("field_to_markdown") => RowLabels(result) = Preorder(field_name, field, level)

C2_Witness ==
    /\ Done("field_to_markdown")
    /\ field.fields # <<>> /\ field.items # <<>> /\ field.keys # <<>> /\ field.values # <<>>
    /\ Len(RowLabels(result)) >= 5

\* what survives the exclusions and the removal of description
Candidates(o, excl) ==
    SelectSeq(o.entries, LAMBDA e : e.attr \notin excl \cup {"description"})

\* a value python takes for false: False, 0, the empty string, None
Falsy(v) == v \in {BoolV(FALSE), IntV(0), StrV(<<>>), NoneV, DictV(<<>>)}

\* the bullet an attribute is to give: the name alone for True, else the bold
\* name and the value's string form
BulletFor(e) ==
    IF e.value = BoolV(TRUE) THEN <<" ", TICK, e.attr, TICK>>
    ELSE <<" ", "**", e.attr, ":**", " ">> \o StrOf(e.value)

BulletsFor(es) == [i \in 1..Len(es) |-> BulletFor(es[i])]

\* C3, as the specification states it: every attribute that was set (and is
\* not excluded, nor the description) gives exactly one bullet, a set 0 or
\* empty string included; only unset attributes are dropped.
C3_AsStated ==
    (Done("obj_attributes_to_markdown") /\ obj.present) =>
        Bullets(result) =
            BulletsFor(SelectSeq(Candidates(obj, excluded_fields), LAMBDA e : e.isset))

\* C3, amended: every attribute that was set to a value python takes for true
\* gives exactly one bullet, in declaration order; an attribute set to False,
\* 0, the empty string or None gives none, like an unset attribute.
C3_SetAndTruthyRendered ==
    (Done("obj_attributes_to_markdown") /\ obj.present) =>
        Bullets(result) =
            BulletsFor(SelectSeq(Candidates(obj, excluded_fields),
                                 LAMBDA e : e.isset /\ ~Falsy(e.value)))

C3_Witness ==
    /\ Done("obj_attributes_to_markdown") /\ obj.present
    /\ \E i \in 1..Len(obj.entries) :
          obj.entries[i].isset /\ obj.entries[i].value = IntV(0)
    /\ \E i \in 1..Len(obj.entries) :
          ~obj.entries[i].isset /\ ~Falsy(obj.entries[i].value)
    /\ Len(Bullets(result)) >= 2

\* C4: a row at nesting depth d > 0 shows exactly d indentation markers and
\* then exactly one descent glyph before its name; a row at depth 0 shows
\* neither; the children of a field at depth d are at depth d + 1.
C4_DepthIndentation ==
    Done("field_to_markdown") =>
        LET rows == RowsOf(result)
            nodes == Preorder(field_name, field, level)
        IN /\ Len(rows) = Len(nodes)
           /\ \A i \in 1..Len(rows) :
                LET cell == FirstCell(rows[i])
                    d == nodes[i].depth
                IN /\ Count(cell, NUMSP) = d
                   /\ Count(cell, ARROW) = (IF d > 0 THEN 1 ELSE 0)
                   /\ SubSeq(cell, 2, Len(cell) - 1) =
                        Repeat(NUMSP, d) \o (IF d > 0 THEN <<ARROW>> ELSE <<>>)
                          \o <<" ", nodes[i].name>>

C4_Witness ==
    /\ Done("field_to_markdown") /\ level = 0
    /\ \E i \in 1..Len(RowsOf(result)) : Count(FirstCell(RowsOf(result)[i]), NUMSP) >= 3

\* C5: a field with none of fields, items, keys, values renders as exactly one
\* output line, whatever scalar attributes it has set.
C5_LeafIsOneLine ==
    (Done("field_to_markdown") /\ IsLeaf(field)) => Len(Lines(result)) = 1

\* C6: an attribute set to True gives a bullet with its name alone between
\* backticks, no value after it; an attribute set to False or left unset gives
\* no bullet at all.
C6_TrueIsFlagFalseOmitted ==
    (Done("obj_attributes_to_markdown") /\ obj.present) =>
        \A i \in 1..Len(Candidates(obj, excluded_fields)) :
            LET e == Candidates(obj, excluded_fields)[i]
            IN /\ (e.isset /\ e.value = BoolV(TRUE)) =>
                    /\ Contains(Bullets(result), <<" ", TICK, e.attr, TICK>>)
                    /\ Count(result, e.attr) = 1
               /\ ((e.isset /\ e.value = BoolV(FALSE)) \/ ~e.isset) =>
                    Count(result, e.attr) = 0

C6_Witness ==
    /\ Done("obj_attributes_to_markdown") /\ obj.present
    /\ \E i \in 1..Len(Candidates(obj, excluded_fields)) :
          Candidates(obj, excluded_fields)[i] = Entry("required", BoolV(TRUE), TRUE)
    /\ Count(result, TICK) = 2

RECURSIVE ModelNames(_)
\* the names a Models section is to show: per model its name, then its rows
ModelNames(models) ==
    IF models = <<>> THEN <<>>
    ELSE <<models[1][1]>> \o Names(PreorderAll(models[1][2].fields, 0))
           \o ModelNames(Tail(models))

\* the names a Models section shows: of its model headings and of its rows
ShownNames(lines) ==
    LET named == SelectSeq(lines, LAMBDA l : IsRow(l) \/ (Len(l) = 3 /\ l[1] = "###"))
    IN [i \in 1..Len(named) |->
          IF IsRow(named[i]) THEN RowLabel(named[i]).name ELSE named[i][3]]

\* C7: the rows of servers, definitions, models and fields (at every level)
\* come out in the iteration order of the input mappings, none reordered,
\* repeated or dropped.
C7_OrderPreserved ==
    /\ Done("field_to_markdown") =>
          Names(RowLabels(result)) = Names(Preorder(field_name, field, level))
    /\ Done("servers_to_markdown") => Names(RowLabels(result)) = Keys(servers)
    /\ Done("definitions_to_markdown") => Names(RowLabels(result)) = Keys(definitions)
    /\ Done("to_markdown") =>
          /\ Names(LabelsOf(Section(result, "## Servers", "## Terms")))
               = Keys(data_contract.servers)
          /\ ShownNames(ModelsSection) = ModelNames(data_contract.models)
          /\ Names(LabelsOf(Section(result, "## Definitions", "## Service levels")))
               = Keys(data_contract.definitions)

C7_Witness ==
    /\ Done("to_markdown")
    /\ Len(data_contract.servers) = 2 /\ Len(data_contract.definitions) = 2
    /\ data_contract.models # <<>>
    /\ Len(RowsOf(result)) = 6

\* C8: servers_to_markdown and definitions_to_markdown return the empty text
\* for an empty mapping; for a non-empty one the header row, the separator row
\* and exactly one row per entry.
C8_EmptyOrOneRowPerEntry ==
    /\ Done("servers_to_markdown") =>
          IF servers = <<>> THEN result = <<>>
          ELSE /\ Len(Lines(result)) = 2 + Len(servers)
               /\ Lines(result)[1] = <<"| Name | Type | Attributes |">>
               /\ Lines(result)[2] = <<"| ---- | ---- | ---------- |">>
    /\ Done("definitions_to_markdown") =>
          IF definitions = <<>> THEN result = <<>>
          ELSE /\ Len(Lines(result)) = 2 + Len(definitions)
               /\ Lines(result)[1] = <<"| Name | Type | Domain | Attributes |">>
               /\ Lines(result)[2] = <<"| ---- | ---- | ------ | ---------- |">>

SectionHeadings ==
    << <<"## Info">>, <<"## Servers">>, <<"## Terms">>, <<"## Models">>,
       <<"## Definitions">>, <<"## Service levels">> >>

IsSectionHeading(line) == \E i \in 1..Len(SectionHeadings) : line = SectionHeadings[i]

\* the sub-headings a ServiceLevel is to give: of its present sub-objects
PartHeadings(sl) ==
    LET present == SelectSeq(ServiceLevelParts,
                             LAMBDA q : sl.present /\ sl.parts[q[1]].present)
    IN [i \in 1..Len(present) |-> <<"###", " ", present[i][2]>>]

\* C9: every document renders the title line and the six section headings,
\* each exactly once and in the fixed order, also over an empty body; of the
\* service level sub-headings only those of the present sub-objects.
C9_HeadingsUnconditional ==
    Done("to_markdown") =>
        LET ls == Lines(result)
            title == <<"#", " ", data_contract.id>>
            after == SubSeq(ls, (CHOOSE k \in 1..Len(ls) : ls[k] = <<"## Service levels">>) + 1,
                            Len(ls))
        IN /\ ls[1] = title
           /\ Len(SelectSeq(ls, LAMBDA l : l = title)) = 1
           /\ SelectSeq(ls, IsSectionHeading) = SectionHeadings
           /\ SelectSeq(after, LAMBDA l : Len(l) > 0 /\ l[1] = "###")
                = PartHeadings(data_contract.servicelevels)

C9_Witness ==
    /\ Done("to_markdown")
    /\ ~data_contract.info.present /\ ~data_contract.terms.present
    /\ ~data_contract.servicelevels.present
    /\ data_contract.servers = <<>> /\ data_contract.models = <<>>
    /\ data_contract.definitions = <<>>
    /\ Len(Lines(result)) = 18

\* C10: the rows of field_to_markdown are the pre-order traversal of the
\* field tree: as many rows as nodes, the first at the start depth, each row
\* at most one deeper than the row before it.
C10_RowsArePreorder ==
    Done("field_to_markdown") =>
        LET ls == Lines(result)
        IN /\ Len(ls) = NodeCount(field)
           /\ \A i \in 1..Len(ls) : IsRow(ls[i])
           /\ LabelsOf(ls) = Preorder(field_name, field, level)
           /\ LabelsOf(ls)[1].depth = level
           /\ \A i \in 2..Len(ls) : LabelsOf(ls)[i].depth <= LabelsOf(ls)[i - 1].depth + 1

====
